---- MODULE Spec2Model ----
(***************************************************************************)
(* Model of timer3 (src/timer3/_timer3.py): the Timer3 recorder (time,     *)
(* timethis) and the call-order reconstruction sort_by_call_order.         *)
(*                                                                         *)
(* Python list indices are kept 0-based as VALUES (the ids handled by       *)
(* sort_by_call_order are 0..n-1); the TLA+ sequences holding the lists are *)
(* 1-based, so record id i lives at position i+1.                          *)
(*                                                                         *)
(* The log_function sink is an external collaborator that does not touch   *)
(* the Timer3 fields; its calls are not modelled.                          *)
(***************************************************************************)
EXTENDS Integers, Sequences, FiniteSets, TLC

\* ------------------------------------------------------------------ bounds
MaxScopes == 5          \* scopes entered in one sequential behaviour
MaxFailScopes == 4      \* scopes entered in one behaviour with raising bodies
MaxConcScopes == 4      \* scopes entered in one two-stack behaviour
MaxOutScopes == 4       \* scopes entered in one behaviour with rendering
MaxClock == 1           \* largest perf_counter() reading
MaxLen == 5             \* longest depth sequence given to the reconstruction
MaxDepth == 3           \* largest depth in such a sequence

Timers == {1, 2}        \* Timer3 instances
Stacks == {1, 2}        \* logical call stacks
Main == 1               \* the instance / stack of the sequential program
None == "None"
Names == {"a"}          \* explicit name= arguments
Funs == {"f"}           \* wrapped functions (the value is fun.__qualname__)

VARIABLES
    times,          \* times[t]         : Timer3.times of instance t
    names,          \* names[t]         : Timer3.names
    states,         \* states[t]        : Timer3.states
    current_state,  \* current_state[t] : Timer3.current_state
    stack,          \* stack[s] : the open time() generators of call stack s,
                    \*            innermost last
    use,            \* use[s]   : the Timer3 instance call stack s works on
    now,            \* last reading of time.perf_counter()
    sorted_ids,     \* observation of the last sort_by_call_order() call
    hist,           \* history: hist[t][i] describes the scope of record i
    nscopes,        \* history: number of scopes entered so far
    raised,         \* history: scopes whose body raised
    output,         \* observation of the last __str__() / export_csv() call
    run             \* call stack of a sort_by_call_order() call in progress,
                    \* innermost frame last

vars == <<times, names, states, current_state, stack, use, now, sorted_ids,
          hist, nscopes, raised, output, run>>

\* ------------------------------------------------------------ small helpers
Range(n) == [i \in 1..n |-> i - 1]                    \* list(range(n))

\* scopes of instance t that are open, over all call stacks
OpenOn(t) ==
    LET Cnt[S \in SUBSET Stacks] ==
            IF S = {} THEN 0
            ELSE LET s == CHOOSE x \in S : TRUE
                 IN (IF use[s] = t THEN Len(stack[s]) ELSE 0) + Cnt[S \ {s}]
    IN Cnt[Stacks]

\* ------------------------------------------------------- Timer3.__init__
Init ==
    /\ times = [t \in Timers |-> <<>>]
    /\ names = [t \in Timers |-> <<>>]
    /\ states = [t \in Timers |-> <<>>]
    /\ current_state = [t \in Timers |-> -1]
    /\ stack = [s \in Stacks |-> <<>>]
    /\ use = [s \in Stacks |-> Main]
    /\ now = 0
    /\ sorted_ids = [called |-> FALSE, n |-> 0, closed |-> TRUE, ids |-> <<>>]
    /\ hist = [t \in Timers |-> <<>>]
    /\ nscopes = 0
    /\ raised = {}
    /\ output = [op |-> "none", error |-> FALSE, n |-> 0, rows |-> <<>>]
    /\ run = <<>>

\* ---------------------------------------------------------- Timer3.time
\* self.current_state += 2
entered_twice(c) == c + 2

\* self.current_state += 1
entered_not(c) == c
entered(c) == c + 1

\* the depth written by self.states.append(self.current_state)
recorded_depth_after(c) == c - 1
recorded_depth(c) == c

\* self.current_state -= 1
released_not(c) == c
released(c) == c - 1

\* list.append
log_prepend(lst, x) == <<x>> \o lst
log_append(lst, x) == Append(lst, x)

\* the three appends of one release; names_skipped forgets the third
names_skipped(lst, x) == lst
names_append(lst, x) == log_append(lst, x)

\* time(): the part before the yield.  The generator frame keeps name and
\* start_time; sid, parent, entry_state, own_open and timer_open are history
\* fields describing the moment of entry.
StartScope(s, name) ==
    LET t == use[s] IN
    /\ \E clock \in now..MaxClock :
        /\ now' = clock
        /\ current_state' = [current_state EXCEPT ![t] = entered(@)]
        /\ stack' = [stack EXCEPT ![s] = Append(@,
                [name |-> name,
                 start_time |-> clock,
                 sid |-> nscopes + 1,
                 parent |-> IF stack[s] = <<>> THEN 0
                            ELSE stack[s][Len(stack[s])].sid,
                 entry_state |-> entered(current_state[t]),
                 own_open |-> Len(stack[s]),
                 timer_open |-> OpenOn(t)])]
    /\ nscopes' = nscopes + 1
    /\ UNCHANGED <<times, names, states, use, sorted_ids, hist, raised,
                   output, run>>

\* with timer.time(name=...): entering the block
time_enter(s) ==
    \E name \in Names : StartScope(s, name)

\* timethis(...)(fun) called: decorator resolves the name, inner enters time()
decorator_name(fun, name) == IF name = None THEN fun ELSE name

inner_call(s) ==
    \E fun \in Funs, name \in Names \cup {None} :
        StartScope(s, decorator_name(fun, name))

\* time(): the part after the yield, run when the body finishes normally
time_exit(s) ==
    LET t == use[s] IN
    /\ stack[s] # <<>>
    /\ LET f == stack[s][Len(stack[s])] IN
       \E clock \in now..MaxClock :
        /\ now' = clock
        /\ states' = [states EXCEPT ![t] =
                        log_append(@, recorded_depth(current_state[t]))]
        /\ times' = [times EXCEPT ![t] = log_append(@, clock - f.start_time)]
        /\ names' = [names EXCEPT ![t] = names_append(@, f.name)]
        /\ current_state' = [current_state EXCEPT ![t] = released(@)]
        /\ hist' = [hist EXCEPT ![t] = log_append(@,
                [sid |-> f.sid, parent |-> f.parent,
                 entry_state |-> f.entry_state,
                 own_open |-> f.own_open, timer_open |-> f.timer_open])]
    /\ stack' = [stack EXCEPT ![s] = SubSeq(@, 1, Len(@) - 1)]
    /\ UNCHANGED <<use, sorted_ids, nscopes, raised, output, run>>

\* The body of the innermost scope raises.  contextmanager throws the
\* exception into the generator at the yield; time() has no try/finally, so
\* nothing after the yield runs and the exception leaves the with block.
time_raise(s) ==
    /\ stack[s] # <<>>
    /\ raised' = raised \cup {stack[s][Len(stack[s])].sid}
    /\ stack' = [stack EXCEPT ![s] = SubSeq(@, 1, Len(@) - 1)]
    /\ UNCHANGED <<times, names, states, current_state, use, now, sorted_ids,
                   hist, nscopes, output, run>>

\* ------------------------------------------- Timer3.sort_by_call_order
\* x in lst, for a Python list
InList(x, lst) == \E k \in 1..Len(lst) : lst[k] = x

\* the comprehension with j >= current_state in place of j == current_state
current_state_indices_deeper(sts, ids, cur) ==
    LET F[k \in 0..Len(sts)] ==
            IF k = 0 THEN <<>>
            ELSE IF sts[k] >= cur THEN Append(F[k - 1], ids[k]) ELSE F[k - 1]
    IN F[Len(sts)]

\* [ids[i] for i, j in enumerate(states) if j == current_state]
current_state_indices(sts, ids, cur) ==
    LET F[k \in 0..Len(sts)] ==
            IF k = 0 THEN <<>>
            ELSE IF sts[k] = cur THEN Append(F[k - 1], ids[k]) ELSE F[k - 1]
    IN F[Len(sts)]

RECURSIVE sort_by_call_order(_, _, _)

\* Variants of loop_body with a slip in the splice: the subcalls put in
\* front of their marker, the subcall buffer not reset, the new entry put in
\* front of the earlier ones.
loop_body_subcalls_first(acc, id_state, state, indices, cur) ==
    IF InList(id_state, indices)
    THEN IF Len(acc.subcall_ids) > 0
         THEN LET sub == sort_by_call_order(acc.subcall_states,
                                            acc.subcall_ids, cur + 1)
              IN [nested_states |->
                      Append(Append(acc.nested_states, sub[1]), <<cur>>),
                  sorted_ids |-> Append(acc.sorted_ids \o sub[2], id_state),
                  subcall_states |-> <<>>,
                  subcall_ids |-> <<>>]
         ELSE [acc EXCEPT !.sorted_ids = Append(@, id_state),
                          !.nested_states = Append(@, <<cur>>)]
    ELSE [acc EXCEPT !.subcall_ids = Append(@, id_state),
                     !.subcall_states = Append(@, state)]

loop_body_no_reset(acc, id_state, state, indices, cur) ==
    IF InList(id_state, indices)
    THEN LET added == [acc EXCEPT
                          !.sorted_ids = Append(@, id_state),
                          !.nested_states = Append(@, <<cur>>)]
         IN IF Len(acc.subcall_ids) > 0
            THEN LET sub == sort_by_call_order(acc.subcall_states,
                                               acc.subcall_ids, cur + 1)
                 IN [nested_states |-> Append(added.nested_states, sub[1]),
                     sorted_ids |-> added.sorted_ids \o sub[2],
                     subcall_states |-> acc.subcall_states,
                     subcall_ids |-> acc.subcall_ids]
            ELSE added
    ELSE [acc EXCEPT !.subcall_ids = Append(@, id_state),
                     !.subcall_states = Append(@, state)]

loop_body_newest_first(acc, id_state, state, indices, cur) ==
    IF InList(id_state, indices)
    THEN IF Len(acc.subcall_ids) > 0
         THEN LET sub == sort_by_call_order(acc.subcall_states,
                                            acc.subcall_ids, cur + 1)
              IN [nested_states |->
                      <<<<cur>>, sub[1]>> \o acc.nested_states,
                  sorted_ids |-> <<id_state>> \o sub[2] \o acc.sorted_ids,
                  subcall_states |-> <<>>,
                  subcall_ids |-> <<>>]
         ELSE [acc EXCEPT !.sorted_ids = <<id_state>> \o @,
                          !.nested_states = <<<<cur>>>> \o @]
    ELSE [acc EXCEPT !.subcall_ids = Append(@, id_state),
                     !.subcall_states = Append(@, state)]

\* One iteration of `for id_state, state in zip(ids, states)`; acc holds the
\* four local lists.
loop_body(acc, id_state, state, indices, cur) ==
    IF InList(id_state, indices)
    THEN LET added == [acc EXCEPT
                          !.sorted_ids = Append(@, id_state),
                          !.nested_states = Append(@, <<cur>>)]
         IN IF Len(acc.subcall_ids) > 0
            THEN LET sub == sort_by_call_order(acc.subcall_states,
                                               acc.subcall_ids, cur + 1)
                 IN [nested_states |-> Append(added.nested_states, sub[1]),
                     sorted_ids |-> added.sorted_ids \o sub[2],
                     subcall_states |-> <<>>,
                     subcall_ids |-> <<>>]
            ELSE added
    ELSE [acc EXCEPT !.subcall_ids = Append(@, id_state),
                     !.subcall_states = Append(@, state)]

\* sort_by_call_order(states, ids, current_state): the list sorted_ids at
\* current_state = 0, the pair (nested_states, sorted_ids) in the recursion.
sort_by_call_order(sts, ids, cur) ==
    LET indices == current_state_indices(sts, ids, cur)
        Loop[k \in 0..Len(sts)] ==
            IF k = 0
            THEN [nested_states |-> <<>>, subcall_states |-> <<>>,
                  sorted_ids |-> <<>>, subcall_ids |-> <<>>]
            ELSE loop_body(Loop[k - 1], ids[k], sts[k], indices, cur)
        end == Loop[Len(sts)]
    IN IF cur = 0 THEN end.sorted_ids
       ELSE <<end.nested_states, end.sorted_ids>>

\* Two slips on the name current_state: the level of the call taken from
\* self.current_state + 1, and the level of the call stored in
\* self.current_state.
SortByCallOrder_level_from_field ==
    /\ sorted_ids' =
        [called |-> TRUE,
         n |-> Len(states[Main]),
         closed |-> stack[Main] = <<>>,
         ids |-> LET level == current_state[Main] + 1
                     ret == sort_by_call_order(states[Main],
                                Range(Len(states[Main])), level)
                 IN IF level = 0 THEN ret ELSE ret[2]]
    /\ UNCHANGED <<times, names, states, current_state, stack, use, now,
                   hist, nscopes, raised, output, run>>

SortByCallOrder_level_stored ==
    /\ sorted_ids' = [called |-> TRUE,
                      n |-> Len(states[Main]),
                      closed |-> stack[Main] = <<>>,
                      ids |-> sort_by_call_order(states[Main],
                                     Range(Len(states[Main])), 0)]
    /\ current_state' = [current_state EXCEPT ![Main] = 0]
    /\ UNCHANGED <<times, names, states, stack, use, now,
                   hist, nscopes, raised, output, run>>

\* timer.sort_by_call_order() with the defaults states=None, ids=None on the
\* Timer3 of the sequential program.  sorted_ids keeps the returned list with
\* the length of the log it was computed from (the log is append-only, so the
\* length identifies the log) and whether a scope was open.
SortByCallOrder ==
    /\ sorted_ids' = [called |-> TRUE,
                      n |-> Len(states[Main]),
                      closed |-> stack[Main] = <<>>,
                      ids |-> sort_by_call_order(states[Main],
                                     Range(Len(states[Main])), 0)]
    /\ UNCHANGED <<times, names, states, current_state, stack, use, now,
                   hist, nscopes, raised, output, run>>

\* ------------------------------------------------------- specifications
\* One sequential call stack, every scope left normally.
Next ==
    \/ nscopes < MaxScopes /\ time_enter(Main)
    \/ nscopes < MaxScopes /\ inner_call(Main)
    \/ time_exit(Main)
    \/ SortByCallOrder

Spec == Init /\ [][Next]_vars

\* One sequential call stack whose timed bodies may raise.
NextFail ==
    \/ nscopes < MaxFailScopes /\ time_enter(Main)
    \/ nscopes < MaxFailScopes /\ inner_call(Main)
    \/ time_exit(Main)
    \/ time_raise(Main)
    \/ SortByCallOrder

SpecFail == Init /\ [][NextFail]_vars

\* Two call stacks, either sharing one Timer3 or owning one each.
InitConc ==
    /\ Init!1 /\ Init!2 /\ Init!3 /\ Init!4 /\ Init!5
    /\ use \in {[s \in Stacks |-> Main], [s \in Stacks |-> s]}
    /\ Init!7 /\ Init!8 /\ Init!9 /\ Init!10 /\ Init!11 /\ Init!12 /\ Init!13

NextConc ==
    \E s \in Stacks :
        \/ nscopes < MaxConcScopes /\ time_enter(s)
        \/ nscopes < MaxConcScopes /\ inner_call(s)
        \/ time_exit(s)

SpecConc == InitConc /\ [][NextConc]_vars

\* ---------------------------------- sort_by_call_order, one step at a time
\* The same method as a machine with an explicit call stack, to observe the
\* recursion itself.  A frame holds the arguments, the local lists and k, the
\* number of elements of zip(ids, states) the loop has finished.
new_frame(sts, ids, cur) ==
    [states |-> sts, ids |-> ids, current_state |-> cur, k |-> 0,
     indices |-> current_state_indices(sts, ids, cur),
     nested_states |-> <<>>, subcall_states |-> <<>>,
     sorted_ids |-> <<>>, subcall_ids |-> <<>>]

\* the recursive call of the marker branch: a call on the whole sequence
\* instead of the buffer would be the slip subcall_frame_whole
subcall_frame_whole(f) ==
    new_frame(f.states, f.ids, f.current_state + 1)
subcall_frame(f) ==
    new_frame(f.subcall_states, f.subcall_ids, f.current_state + 1)

\* sorted_ids.extend([id_state]); nested_states.append([current_state])
frame_marker(f, id_state) ==
    [f EXCEPT !.sorted_ids = Append(@, id_state),
              !.nested_states = Append(@, <<f.current_state>>)]

\* the else branch: subcall_ids.extend([id_state]); subcall_states.append(state)
frame_buffer(f, id_state, state) ==
    [f EXCEPT !.subcall_ids = Append(@, id_state),
              !.subcall_states = Append(@, state),
              !.k = @ + 1]

\* what a frame returns
frame_result(f) ==
    IF f.current_state = 0 THEN f.sorted_ids
    ELSE <<f.nested_states, f.sorted_ids>>

\* the caller forgetting sorted_ids.extend(subcall_ids)
frame_after_subcall_dropped(f, ret) ==
    [f EXCEPT !.nested_states = Append(@, ret[1]),
              !.subcall_states = <<>>,
              !.subcall_ids = <<>>,
              !.k = @ + 1]

\* the caller after its recursive call returned ret: unpack, add, reset
frame_after_subcall(f, ret) ==
    [f EXCEPT !.nested_states = Append(@, ret[1]),
              !.sorted_ids = @ \o ret[2],
              !.subcall_states = <<>>,
              !.subcall_ids = <<>>,
              !.k = @ + 1]

Top == run[Len(run)]

\* timer.sort_by_call_order() is called
sort_call ==
    /\ run = <<>>
    /\ run' = <<new_frame(states[Main], Range(Len(states[Main])), 0)>>
    /\ UNCHANGED <<times, names, states, current_state, stack, use, now,
                   sorted_ids, hist, nscopes, raised, output>>

\* one iteration of the loop of the innermost frame, up to its recursive call
sort_step ==
    /\ run # <<>>
    /\ Top.k < Len(Top.states)
    /\ LET f == Top
           id_state == f.ids[f.k + 1]
           state == f.states[f.k + 1]
           below == SubSeq(run, 1, Len(run) - 1)
       IN IF InList(id_state, f.indices)
          THEN IF Len(f.subcall_ids) > 0
               THEN run' = below \o <<frame_marker(f, id_state),
                                     subcall_frame(f)>>
               ELSE run' = Append(below,
                                [frame_marker(f, id_state) EXCEPT !.k = @ + 1])
          ELSE run' = Append(below, frame_buffer(f, id_state, state))
    /\ UNCHANGED <<times, names, states, current_state, stack, use, now,
                   sorted_ids, hist, nscopes, raised, output>>

\* the loop of the innermost frame is over: return to the caller
sort_return ==
    /\ run # <<>>
    /\ Top.k = Len(Top.states)
    /\ IF Len(run) = 1
       THEN /\ run' = <<>>
            /\ sorted_ids' = [called |-> TRUE,
                              n |-> Len(Top.states),
                              closed |-> stack[Main] = <<>>,
                              ids |-> frame_result(Top)]
       ELSE /\ run' = Append(SubSeq(run, 1, Len(run) - 2),
                        frame_after_subcall(run[Len(run) - 1],
                                            frame_result(Top)))
            /\ UNCHANGED sorted_ids
    /\ UNCHANGED <<times, names, states, current_state, stack, use, now,
                   hist, nscopes, raised, output>>

\* A Timer3 whose states list holds any depth sequence, well-nested or not
\* (times and names of the same length), on which the reconstruction runs.
DepthSeqs == UNION {[1..n -> 0..MaxDepth] : n \in 0..MaxLen}

InitSeq ==
    /\ \E sts \in DepthSeqs :
        /\ states = [t \in Timers |-> IF t = Main THEN sts ELSE <<>>]
        /\ times = [t \in Timers |->
                        IF t = Main THEN [i \in DOMAIN sts |-> 0] ELSE <<>>]
        /\ names = [t \in Timers |->
                        IF t = Main THEN [i \in DOMAIN sts |-> "a"] ELSE <<>>]
    /\ Init!4 /\ Init!5 /\ Init!6 /\ Init!7 /\ Init!8 /\ Init!9 /\ Init!10
    /\ Init!11 /\ Init!12 /\ Init!13

NextSeq ==
    \/ run = <<>> /\ SortByCallOrder
    \/ sort_call
    \/ sort_step
    \/ sort_return

SpecSeq == InitSeq /\ [][NextSeq]_vars /\ WF_vars(sort_step \/ sort_return)

\* --------------------------------------- Timer3.__str__, Timer3.export_csv
\* Python's max(list): an error on the empty list.  py_max_default is max
\* with default=0.
py_max_default(lst) ==
    IF lst = <<>> THEN [error |-> FALSE, value |-> 0]
    ELSE [error |-> FALSE,
          value |-> CHOOSE x \in {lst[k] : k \in DOMAIN lst} :
                        \A k \in DOMAIN lst : lst[k] <= x]
py_max(lst) ==
    IF lst = <<>> THEN [error |-> TRUE, value |-> 0]
    ELSE [error |-> FALSE,
          value |-> CHOOSE x \in {lst[k] : k \in DOMAIN lst} :
                        \A k \in DOMAIN lst : lst[k] <= x]

Min2(a, b) == IF a <= b THEN a ELSE b

\* [""] * count
Blanks(count) == [k \in 1..count |-> ""]

\* [len(n) + s for n, s in zip(self.names, self.states)]
name_widths(t) ==
    [k \in 1..Min2(Len(names[t]), Len(states[t])) |->
        Len(names[t][k]) + states[t][k]]

\* The table as its lines: the separator, the centred title, one row per id
\* of the reconstructed ordering (the name behind two blanks per level, the
\* time in scientific notation), the separator.
table_lines(t, max_len) ==
    LET order == sort_by_call_order(states[t], Range(Len(states[t])), 0)
        separator == [kind |-> "separator", width |-> max_len + 23]
    IN <<separator,
         [kind |-> "title", text |-> "Timer3", width |-> max_len + 23],
         separator>>
       \o [q \in DOMAIN order |->
            [kind |-> "row",
             indent |-> 2 * states[t][order[q] + 1],
             name |-> names[t][order[q] + 1],
             time |-> times[t][order[q] + 1],
             width |-> max_len + 4]]
       \o <<separator>>

\* str(timer)
Str ==
    /\ LET widest == py_max(name_widths(Main))
       IN output' =
            IF widest.error
            THEN [op |-> "str", error |-> TRUE, n |-> Len(states[Main]),
                  rows |-> <<>>]
            ELSE [op |-> "str", error |-> FALSE, n |-> Len(states[Main]),
                  rows |-> table_lines(Main, Min2(40, widest.value))]
    /\ UNCHANGED <<times, names, states, current_state, stack, use, now,
                   sorted_ids, hist, nscopes, raised, run>>

\* row = [""] * max_state + [t]; row[s] = n.  csv_row_first_column puts
\* the name into column 0.
csv_row_first_column(n, t, st, max_state) ==
    [Blanks(max_state) \o <<t>> EXCEPT ![1] = n]
csv_row(n, t, st, max_state) ==
    [Blanks(max_state) \o <<t>> EXCEPT ![st + 1] = n]

\* the rows handed to csv_writer.writerow, the header first
csv_rows(t, max_state) ==
    LET order == sort_by_call_order(states[t], Range(Len(states[t])), 0)
    IN <<[Blanks(max_state) \o <<"time (s)">> EXCEPT ![1] = "function names"]>>
       \o [q \in DOMAIN order |->
            csv_row(names[t][order[q] + 1], times[t][order[q] + 1],
                    states[t][order[q] + 1], max_state)]

\* timer.export_csv(file_path); opening the file may fail
export_csv ==
    /\ LET deepest == py_max(states[Main])
       IN \E can_open \in BOOLEAN :
            output' =
                IF deepest.error \/ ~can_open
                THEN [op |-> "csv", error |-> TRUE, n |-> Len(states[Main]),
                      rows |-> <<>>]
                ELSE [op |-> "csv", error |-> FALSE, n |-> Len(states[Main]),
                      rows |-> csv_rows(Main, deepest.value + 1)]
    /\ UNCHANGED <<times, names, states, current_state, stack, use, now,
                   sorted_ids, hist, nscopes, raised, run>>

\* One sequential call stack whose Timer3 is rendered and exported.
NextOut ==
    \/ nscopes < MaxOutScopes /\ time_enter(Main)
    \/ nscopes < MaxOutScopes /\ inner_call(Main)
    \/ time_exit(Main)
    \/ Str
    \/ export_csv

SpecOut == Init /\ [][NextOut]_vars

\* ------------------------------------------------- the recorded call tree
\* The call tree is read from the history of the sequential program's
\* Timer3: record i (position i+1) was produced by scope hist[Main][i+1].sid,
\* opened from inside scope .parent (0: from no timed scope).
H == hist[Main]
Log == states[Main]

\* parent of a scope that is open or logged (0: none)
ScopeParent(sid) ==
    IF \E k \in DOMAIN H : H[k].sid = sid
    THEN H[CHOOSE k \in DOMAIN H : H[k].sid = sid].parent
    ELSE IF \E k \in DOMAIN stack[Main] : stack[Main][k].sid = sid
    THEN stack[Main][CHOOSE k \in DOMAIN stack[Main] :
                        stack[Main][k].sid = sid].parent
    ELSE 0

RECURSIVE Ancestors(_)
Ancestors(sid) ==
    LET p == ScopeParent(sid)
    IN IF p = 0 THEN {} ELSE {p} \cup Ancestors(p)

\* depth-first preorder of the subtrees below scope p among the first n
\* records, children in arrival order, as 0-based record ids
RECURSIVE Preorder(_, _)
Preorder(p, n) ==
    LET F[k \in 0..n] ==
            IF k = 0 THEN <<>>
            ELSE IF H[k].parent = p
                 THEN F[k - 1] \o <<k - 1>> \o Preorder(H[k].sid, n)
                 ELSE F[k - 1]
    IN F[n]

Elems(seq) == {seq[k] : k \in DOMAIN seq}

\* a call of sort_by_call_order() has returned, made when no scope was open
SortedClosed == sorted_ids.called /\ sorted_ids.closed

\* ------------------------------------------------------------------ claims

\* C1: for a log of well-nested scopes, all closed, sort_by_call_order()
\* returns exactly the depth-first preorder of the call tree (every record
\* directly followed by all its descendants, children in arrival order).
C1_Preorder ==
    SortedClosed => sorted_ids.ids = Preorder(0, sorted_ids.n)

C1_Witness ==
    /\ SortedClosed
    /\ sorted_ids.n = Len(Log)
    /\ \E i, j, k \in 1..sorted_ids.n :
        /\ i < j /\ Log[i] = 0 /\ Log[j] = 0
        /\ k < i /\ Log[k] = 2

\* C2: for a log of well-nested scopes, all closed, the returned list is a
\* permutation of 0..n-1.
C2_Permutation ==
    SortedClosed =>
        /\ Len(sorted_ids.ids) = sorted_ids.n
        /\ Elems(sorted_ids.ids) = 0..(sorted_ids.n - 1)

C2_Witness ==
    /\ SortedClosed
    /\ sorted_ids.n >= 4
    /\ sorted_ids.ids # Range(sorted_ids.n)

\* C3: two records with the same depth and the same parent appear in the
\* returned list in their arrival order.
C3_SiblingOrder ==
    SortedClosed =>
        \A i, j \in 1..sorted_ids.n :
            (i < j /\ Log[i] = Log[j] /\ H[i].parent = H[j].parent) =>
                \E p, q \in DOMAIN sorted_ids.ids :
                    /\ p < q
                    /\ sorted_ids.ids[p] = i - 1
                    /\ sorted_ids.ids[q] = j - 1

C3_Witness ==
    /\ SortedClosed
    /\ \E i, j \in 1..sorted_ids.n :
        /\ i < j /\ Log[i] = 1 /\ Log[j] = 1 /\ H[i].parent = H[j].parent
    /\ \E i, j \in 1..sorted_ids.n :
        /\ i < j /\ Log[i] = 0 /\ Log[j] = 0

\* C4: a scope whose body raised has exactly one record in the log.
C4_RaisedScopeRecorded ==
    \A sid \in raised : Cardinality({k \in DOMAIN H : H[k].sid = sid}) = 1

\* C5: the depth of every record is the counter value right after the
\* scope's entry increment, which is the number of scopes of the Timer3 that
\* were open at entry; so it is never negative.
C5_DepthIsOpenCount ==
    \A k \in DOMAIN Log :
        /\ Log[k] = H[k].entry_state
        /\ Log[k] = H[k].timer_open
        /\ Log[k] >= 0

C5_Witness ==
    /\ \E k \in DOMAIN Log : Log[k] = 2 /\ H[k].timer_open = 2
    /\ \E k \in DOMAIN Log : Log[k] = 0

\* C6: current_state is the number of open scopes minus one; -1 when every
\* scope has exited.
C6_CounterTracksOpen ==
    current_state[Main] = Len(stack[Main]) - 1

C6_Witness ==
    /\ stack[Main] = <<>>
    /\ current_state[Main] = -1
    /\ \E k \in DOMAIN Log : Log[k] = 1

\* C7: once a body has raised, the counter is still the number of open
\* scopes minus one, and every scope entered at top level is recorded with
\* depth 0.
C7_ReleasedAfterRaise ==
    raised # {} =>
        /\ current_state[Main] = Len(stack[Main]) - 1
        /\ \A k \in DOMAIN Log : H[k].own_open = 0 => Log[k] = 0

\* C8: the three lists have the length of the number of completed scopes,
\* every completed scope has one record, an open or raised one has none, and
\* every step leaves the old log as a prefix of the new one.
Completed == (1..nscopes) \ (raised \cup {stack[Main][k].sid : k \in DOMAIN stack[Main]})

IsPrefix(a, b) == Len(a) <= Len(b) /\ SubSeq(b, 1, Len(a)) = a

C8_OneRecordPerScope ==
    /\ [](/\ Len(states[Main]) = Cardinality(Completed)
          /\ Len(times[Main]) = Cardinality(Completed)
          /\ Len(names[Main]) = Cardinality(Completed)
          /\ \A sid \in 1..nscopes :
                Cardinality({k \in DOMAIN H : H[k].sid = sid})
                    = IF sid \in Completed THEN 1 ELSE 0)
    /\ [][/\ IsPrefix(states[Main], states'[Main])
          /\ IsPrefix(times[Main], times'[Main])
          /\ IsPrefix(names[Main], names'[Main])]_vars

C8_Witness ==
    /\ Len(names[Main]) = 2
    /\ raised # {}
    /\ stack[Main] # <<>>

\* C9: the record of a scope is appended after the records of all scopes
\* nested inside it.
C9_ChildrenLoggedFirst ==
    \A i \in DOMAIN H :
        LET anc == Ancestors(H[i].sid)
        IN \A j \in DOMAIN H : H[j].sid \in anc => i < j

C9_Witness ==
    \E i, j \in DOMAIN H :
        /\ H[j].sid \in Ancestors(H[i].sid)
        /\ H[j].sid # H[i].parent

\* C10: with one Timer3 per call stack every record's depth is the number of
\* scopes open in its own stack at entry; with a shared Timer3 a record whose
\* depth differs from that number is reachable (the witness).
Shared == \A s \in Stacks : use[s] = Main

C10_OwnTimerDepth ==
    ~Shared =>
        \A t \in Timers : \A k \in DOMAIN states[t] :
            states[t][k] = hist[t][k].own_open

C10_Witness ==
    /\ Shared
    /\ \E k \in DOMAIN Log :
        /\ Log[k] # H[k].own_open
        /\ Log[k] # H[k].entry_state

\* ------------------------------------------- claims on the reconstruction
Max(S) == CHOOSE x \in S : \A y \in S : y <= x

\* position of x in a list that holds it
Pos(x, lst) == CHOOSE k \in DOMAIN lst : lst[k] = x

\* the ids returned for the log by a call at level L; the call at level 0
\* is the observed one
LevelIds(L) ==
    IF L = 0 THEN sorted_ids.ids
    ELSE sort_by_call_order(Log, Range(Len(Log)), L)[2]

\* a and b are consecutive markers of level L in the log
ConsecutiveMarkers(L, a, b) ==
    /\ a < b /\ Log[a] = L /\ Log[b] = L
    /\ \A k \in (a + 1)..(b - 1) : Log[k] # L

\* the records buffered between a and b that the call at level L returns
Kept(L, a, b) == {k \in (a + 1)..(b - 1) : InList(k - 1, LevelIds(L))}

\* the first record after k that is shallower than record k (0: none)
NextShallower(k) ==
    IF \E j \in (k + 1)..Len(Log) : Log[j] < Log[k]
    THEN CHOOSE j \in (k + 1)..Len(Log) :
            /\ Log[j] < Log[k]
            /\ \A i \in (k + 1)..(j - 1) : Log[i] >= Log[k]
    ELSE 0

\* record k skips a level: the nearest shallower record after it is more
\* than one level up
Skips(k) ==
    /\ NextShallower(k) # 0
    /\ Log[NextShallower(k)] < Log[k] - 1

\* C11: for the depths [1,0,1,0], sort_by_call_order() returns [1,0,3,2].
C11_ScenarioC ==
    (sorted_ids.called /\ Log = <<1, 0, 1, 0>>) =>
        sorted_ids.ids = <<1, 0, 3, 2>>

C11_Witness ==
    /\ sorted_ids.called
    /\ Log = <<1, 0, 1, 0>>
    /\ names[Main] = <<"a", "a", "a", "a">>

\* C16 as claimed: the records buffered between two consecutive level-L
\* markers are spliced after the earlier marker and before the later one.
C16_AfterEarlierMarker ==
    sorted_ids.called =>
        \A L \in 0..MaxDepth : \A a, b \in DOMAIN Log :
            ConsecutiveMarkers(L, a, b) =>
                \A k \in Kept(L, a, b) :
                    /\ Pos(a - 1, LevelIds(L)) < Pos(k - 1, LevelIds(L))
                    /\ Pos(k - 1, LevelIds(L)) < Pos(b - 1, LevelIds(L))

\* C16 as amended: the records buffered between two consecutive level-L
\* markers belong to the later marker; the ones returned stand directly
\* after the later marker, before any further marker of level L.
C16_AfterLaterMarker ==
    sorted_ids.called =>
        \A L \in 0..MaxDepth : \A a, b \in DOMAIN Log :
            ConsecutiveMarkers(L, a, b) =>
                LET ids == LevelIds(L)
                    p == Pos(b - 1, ids)
                    kept == Kept(L, a, b)
                IN /\ Pos(a - 1, ids) < p
                   /\ p + Cardinality(kept) <= Len(ids)
                   /\ {ids[q] : q \in (p + 1)..(p + Cardinality(kept))}
                        = {k - 1 : k \in kept}

C16_Witness ==
    /\ sorted_ids.called
    /\ \E a, b \in DOMAIN Log :
        /\ ConsecutiveMarkers(0, a, b)
        /\ Cardinality(Kept(0, a, b)) >= 2
        /\ b < Len(Log)

\* C17: the records behind the last marker (a log read while the enclosing
\* scope is open) are in the returned ordering too; no record is lost.
C17_NoBufferedRecordLost ==
    sorted_ids.called =>
        \A k \in 1..sorted_ids.n : InList(k - 1, sorted_ids.ids)

C19_WellNestedLog ==
    stack[Main] = <<>> =>
        /\ Log = <<>> \/ Log[Len(Log)] = 0
        /\ \A k \in DOMAIN Log :
            Log[k] > 0 =>
                /\ NextShallower(k) # 0
                /\ Log[NextShallower(k)] = Log[k] - 1

C19_Witness ==
    /\ stack[Main] = <<>>
    /\ Len(Log) >= 4
    /\ \E k \in DOMAIN Log : Log[k] = 2 /\ NextShallower(k) > k + 1

\* C20: every call of sort_by_call_order() returns; each recursive call
\* works on a sequence strictly shorter than its caller's, and the stack of
\* calls is never deeper than the sequence is long.
C20_Terminates ==
    /\ [](\A i \in 1..(Len(run) - 1) :
            Len(run[i + 1].states) < Len(run[i].states))
    /\ [](Len(run) <= Max({1, Len(Log)}))
    /\ ((run # <<>>) ~> (run = <<>>))

C20_Witness ==
    /\ Len(run) = 3
    /\ Len(run[3].states) = 2
    /\ \E k \in DOMAIN Log : Log[k] > 2

C13_SortLeavesRecorder ==
    [][(sorted_ids' # sorted_ids \/ run' # run) =>
        /\ states' = states
        /\ times' = times
        /\ names' = names
        /\ current_state' = current_state]_vars

C13_Witness ==
    /\ sorted_ids.called
    /\ run = <<>>
    /\ Len(sorted_ids.ids) = MaxLen
    /\ sorted_ids.ids # Range(MaxLen)
    /\ Len(times[Main]) = MaxLen /\ Len(names[Main]) = MaxLen
    /\ current_state[Main] = -1

\* ------------------------------------------------- claims on the rendering
\* C14: with zero records str() and export_csv() end in an error, produce
\* nothing, and leave the recorder as it was.
C14_EmptyLogFails ==
    /\ []((output.op # "none" /\ output.n = 0) =>
            (output.error /\ output.rows = <<>>))
    /\ [][(output' # output /\ Log = <<>>) =>
            /\ output'.error
            /\ states' = states /\ times' = times /\ names' = names
            /\ current_state' = current_state /\ stack' = stack]_vars

C14_Witness ==
    /\ output.op = "str"
    /\ output.error
    /\ output.n = 0
    /\ Log = <<>>
    /\ stack[Main] # <<>>

\* C15: export_csv writes the header and one row per id of the reconstructed
\* ordering; every row has max(depth)+2 cells; in a data row the cell at the
\* column of the record's depth holds the name and is the only one of the
\* first max(depth)+1 cells that is not blank; the last cell is the time.
ExportedLog == SubSeq(Log, 1, output.n)

C15_CsvLayout ==
    (output.op = "csv" /\ ~output.error) =>
        LET deepest == Max({ExportedLog[k] : k \in DOMAIN ExportedLog})
            order == sort_by_call_order(ExportedLog, Range(output.n), 0)
            rows == output.rows
        IN /\ Len(rows) = 1 + Len(order)
           /\ \A r \in DOMAIN rows : Len(rows[r]) = deepest + 2
           /\ rows[1][1] = "function names"
           /\ rows[1][deepest + 2] = "time (s)"
           /\ \A q \in DOMAIN order :
                LET i == order[q] + 1
                    row == rows[q + 1]
                IN /\ {k \in 1..(deepest + 1) : row[k] # ""} = {Log[i] + 1}
                   /\ row[Log[i] + 1] = names[Main][i]
                   /\ row[deepest + 2] = times[Main][i]

C15_Witness ==
    /\ output.op = "csv"
    /\ ~output.error
    /\ Len(output.rows) = 4
    /\ Len(output.rows[1]) = 4
    /\ output.rows[2][1] # ""
    /\ output.rows[3][2] # ""
    /\ output.rows[4][3] # ""

====
